---- MODULE Spec2Model ----
(***************************************************************************)
(* A model of log.py (davidn/netlog): the Metrics sample collection, the   *)
(* four probes (TCP connect, TLS handshake, HTTP request, ping), the       *)
(* orchestrator GatherAllMetrics, SendMetrics and the fixed-period         *)
(* MainLoop.                                                               *)
(*                                                                         *)
(* Time is counted in whole ticks on the axis of datetime.utcnow(); the    *)
(* clock `now` never runs backwards.  What the network, the HTTP library,  *)
(* the TLS library and the ping utility do is an input of each probe (its  *)
(* `env`), drawn from a bounded set by the action that calls the probe.    *)
(* An exception nobody catches ends the process: pc = "raised".            *)
(*                                                                         *)
(* Spec is MainLoop with one server; SpecFanOut is MainLoop with two       *)
(* servers and two schemes; SpecDirect and SpecSerialize apply the methods *)
(* of Metrics to objects built beforehand.                                 *)
(***************************************************************************)
EXTENDS Integers, Sequences, FiniteSets, TLC

VARIABLES
    args,            \* the parsed configuration (never changes)
    pc,              \* where MainLoop stands
    idx,             \* position in the generator reduce() is consuming
    now,             \* what datetime.utcnow() returns
    last_time,       \* MainLoop's last_time
    next_time,       \* MainLoop's next_time
    http_metrics,    \* GatherAllMetrics' locals: the running value of each reduce
    socket_metrics,
    ssl_metrics,
    ping_metrics,
    ret,             \* the last probe invocation: its arguments, inputs and result
    exc,             \* the uncaught exception, if any, and the function that raised it
    sched,           \* what MainLoop did after the last cycle (sleep / overrun log)
    wire,            \* what the collector received in this cycle
    calls,           \* the probe invocations of the cycle so far, in order
    sends,           \* the number of SendMetrics calls of the cycle so far
    heap,            \* the Python lists that exist: heap[id] is the list's content
    objs,            \* the Metrics objects that exist: objs[k] is the id of its list
    op               \* the last operation applied to Metrics objects directly

vars == <<args, pc, idx, now, last_time, next_time, http_metrics, socket_metrics,
          ssl_metrics, ping_metrics, ret, exc, sched, wire, calls, sends,
          heap, objs, op>>

(* the variables MainLoop does not touch *)
direct == <<heap, objs, op>>

----------------------------------------------------------------------------
(* Bounds of the model. *)

MaxStep == 1        \* longest duration of one blocking operation, in ticks
MaxPeriod == 2      \* args.period ranges over 1..MaxPeriod
MaxTime == 6        \* the clock is followed up to this tick
MaxBody == 2        \* longest HTTP response body, in bytes
MaxCert == 1        \* longest peer certificate, in bytes
MaxLag == 1         \* longest oversleep of time.sleep
MaxLen == 2         \* longest list a Metrics object is built with, and is added to
MaxObjs == 3        \* most Metrics objects alive at once

\* datetime.datetime(1970,1,1) on the clock's axis
Epoch == 3

----------------------------------------------------------------------------
(* Values of a sample: Python numbers and Python strings are different     *)
(* values, also when the string spells a number.                           *)

Num(n) == [kind |-> "num", num |-> n, text |-> ""]
Str(s) == [kind |-> "str", num |-> 0, text |-> s]

(* "%s" % port for an integer port *)
FormatInt(n) == ToString(n)

(* the parts joined last to first *)
RECURSIVE PrefixStr_Reversed(_)
PrefixStr_Reversed(prefixes) ==
    IF prefixes = <<>> THEN ""
    ELSE PrefixStr_Reversed(Tail(prefixes)) \o (Head(prefixes) \o ".")

(* "".join("%s." % prefix for prefix in prefixes) *)
RECURSIVE PrefixStr(_)
PrefixStr(prefixes) ==
    IF prefixes = <<>> THEN ""
    ELSE (Head(prefixes) \o ".") \o PrefixStr(Tail(prefixes))

(* class Metrics: self.metrics is a list of (param, (seconds, value)) *)
EmptyMetrics == <<>>

Add(metrics, param, value, time) ==
    Append(metrics, <<param, <<time - Epoch, value>>>>)

(* the operands taken in the other order *)
Merge_OtherFirst(self, other) == other \o self

__add__(self, other) == self \o other

(* Prefixed stamping its result anew, with second 0 *)
Prefixed_Restamped(metrics, prefixes) ==
    [i \in 1..Len(metrics) |->
        <<PrefixStr(prefixes) \o metrics[i][1], <<0, metrics[i][2][2]>>>>]

Prefixed(metrics, prefixes) ==
    LET prefix_str == PrefixStr(prefixes)
    IN  [i \in 1..Len(metrics) |-> <<prefix_str \o metrics[i][1], metrics[i][2]>>]

(* What a call gives back: a value, or an exception that leaves the call.  *)
(* `end` is the clock when the call is left, `open` the number of handles  *)
(* (sockets, responses) the call opened and has not closed by then.        *)
Return(metrics, end) ==
    [raised |-> "none", metrics |-> metrics, end |-> end, open |-> 0]
Raise(type, end) ==
    [raised |-> type, metrics |-> EmptyMetrics, end |-> end, open |-> 0]

(* the call is left with n of its handles still open *)
Holding(res, n) == [res EXCEPT !.open = n]

Names(metrics) == [i \in 1..Len(metrics) |-> metrics[i][1]]

----------------------------------------------------------------------------
(* GatherServerSocketMetrics.  env.connect is what socket.create_connection *)
(* does ("ok", "timeout" for socket.timeout, "error" for any other         *)
(* socket.error) after env.d1 ticks; env.handshake is what ssl.wrap_socket *)
(* does ("ok", "SSLError", or "socket.error" for a failure that is no      *)
(* SSLError) after env.d2 more ticks; env.cert is the length of the peer's *)
(* certificate.                                                            *)

SocketEnvs ==
    [connect : {"timeout", "error"}, handshake : {"ok"}, d1 : 0..MaxStep,
     d2 : {0}, cert : {1}]
    \cup
    [connect : {"ok"}, handshake : {"ok"}, d1 : 0..MaxStep, d2 : 0..MaxStep,
     cert : 1..MaxCert]
    \cup
    [connect : {"ok"}, handshake : {"SSLError", "socket.error"}, d1 : 0..MaxStep,
     d2 : {0}, cert : {1}]

(* GatherServerSocketMetrics with `except socket.error` placed before       *)
(* `except socket.timeout`: socket.timeout is a socket.error, so a timeout  *)
(* is then counted as an error.                                            *)
GatherServerSocketMetrics_ErrorFirst(server, port, do_ssl, start, env) ==
    LET pre == <<server[1], FormatInt(port)>>
        t1 == start + env.d1
        t2 == t1 + env.d2
        m1 == Add(EmptyMetrics, "connect_time", Num(t1 - start), start)
        m2 == Add(m1, "ssl_handshake_time", Num(t2 - start), start)
        m3 == Add(m2, "ssl_cert_length", Num(env.cert), start)
    IN  IF env.connect \in {"timeout", "error"}
        THEN Return(Prefixed(Add(EmptyMetrics, "errors", Num(1), start), pre), t1)
        ELSE IF ~do_ssl
        THEN Return(Prefixed(m1, pre), t1)
        ELSE IF env.handshake = "socket.error"
        THEN Holding(Raise("socket.error", t2), 1)
        ELSE IF env.handshake = "SSLError"
        THEN Holding(Raise("UnboundLocalError", t2), 1)
        ELSE Return(Prefixed(m3, pre), t2)

GatherServerSocketMetrics(server, port, do_ssl, start, env) ==
    LET pre == <<server[1], FormatInt(port)>>
        t1 == start + env.d1
        t2 == t1 + env.d2
        m1 == Add(EmptyMetrics, "connect_time", Num(t1 - start), start)
        m2 == Add(m1, "ssl_handshake_time", Num(t2 - start), start)
        m3 == Add(m2, "ssl_cert_length", Num(env.cert), start)
    IN  IF env.connect = "timeout"
        THEN Return(Prefixed(Add(EmptyMetrics, "timeout", Num(1), start), pre), t1)
        ELSE IF env.connect = "error"
        THEN Return(Prefixed(Add(EmptyMetrics, "errors", Num(1), start), pre), t1)
        ELSE IF ~do_ssl
        THEN Return(Prefixed(m1, pre), t1)
        \* an exception leaves before sock.close() at line 116
        ELSE IF env.handshake = "socket.error"
        THEN Holding(Raise("socket.error", t2), 1)
        ELSE IF env.handshake = "SSLError"
        \* `pass`, then line 115 reads ssl_sock, which was never bound
        THEN Holding(Raise("UnboundLocalError", t2), 1)
        ELSE Return(Prefixed(m3, pre), t2)

(* The TCP-connect probe never reaches the handshake: its inputs are those  *)
(* of SocketEnvs that differ in the connection alone.                      *)
TcpEnvs == {e \in SocketEnvs : e.handshake = "ok" /\ e.d2 = 0 /\ e.cert = 1}

----------------------------------------------------------------------------
(* GatherServerHttpMetrics.  env.open is what urllib2.urlopen does after   *)
(* env.d1 ticks: "ok" (a response), "HTTPError" (an error status, usable   *)
(* as a response), "URLError" (with env.reason "timeout" when e.reason is  *)
(* a socket.timeout) or "other" (an exception that is neither, such as a   *)
(* socket.timeout raised while the status line is read).  env.body is the  *)
(* length of the response body, env.read says which read of the body, if   *)
(* any, raises socket.timeout; the rest of the body takes env.d2 ticks.    *)

HttpEnvs ==
    [open : {"ok"}, reason : {"none"}, code : {200}, body : 0..MaxBody,
     read : {"ok"}, d1 : 0..MaxStep, d2 : 0..MaxStep]
    \cup
    [open : {"ok"}, reason : {"none"}, code : {200}, body : {1},
     read : {"first", "rest"}, d1 : 0..MaxStep, d2 : {0}]
    \cup
    [open : {"HTTPError"}, reason : {"none"}, code : {404}, body : 0..MaxBody,
     read : {"ok"}, d1 : 0..MaxStep, d2 : 0..MaxStep]
    \cup
    [open : {"URLError"}, reason : {"timeout", "refused"}, code : {0}, body : {0},
     read : {"ok"}, d1 : 0..MaxStep, d2 : {0}]
    \cup
    [open : {"other"}, reason : {"none"}, code : {0}, body : {0},
     read : {"ok"}, d1 : 0..MaxStep, d2 : {0}]

(* len(response.read(1)) *)
ReadFirst(body) == IF body >= 1 THEN 1 ELSE 0

(* the remainder counted as the whole body: the first byte counted twice *)
ReadRest_Whole(body) == body

(* len(response.read()) after one byte was asked for *)
ReadRest(body) == body - ReadFirst(body)

GatherServerHttpMetrics(schema, server, start, env) ==
    LET pre == <<server[1], schema>>
        t1 == start + env.d1
        t2 == t1 + env.d2
        e1 == Add(EmptyMetrics, "errors", Num(1), start)
        m0 == IF env.open = "HTTPError" THEN e1 ELSE EmptyMetrics
        size == ReadFirst(env.body) + ReadRest(env.body)
        m1 == Add(m0, "time_to_first_byte", Num(t1 - start), start)
        m2 == Add(m1, "time_to_last_byte", Num(t2 - start), start)
        m3 == Add(m2, "code", Num(env.code), start)
        m4 == Add(m3, "size", Num(size), start)
    IN  IF env.open = "other"
        THEN Raise("socket.timeout", t1)
        ELSE IF env.open = "URLError"
        THEN IF env.reason = "timeout"
             THEN Return(Prefixed(Add(e1, "timeout", Num(1), start), pre), t1)
             ELSE Return(Prefixed(Add(e1, "errors", Num(1), start), pre), t1)
        \* a read that raises leaves with the response open; a body read to
        \* its end is closed by the library
        ELSE IF env.read = "first"
        THEN Holding(Raise("socket.timeout", t1), 1)
        ELSE IF env.read = "rest"
        THEN Holding(Raise("socket.timeout", t2), 1)
        ELSE Return(Prefixed(m4, pre), t2)

----------------------------------------------------------------------------
(* GatherPingMetrics.  env.returncode is the exit code of the ping         *)
(* utility, env.output what it printed, as a sequence of pieces of text,   *)
(* env.order the order in which match.groupdict().items() lists the four   *)
(* groups (a dictionary's order is the interpreter's), env.d1 how long the *)
(* utility ran.                                                            *)

RttText == "rtt min/avg/max/mdev = "

(* the texts [\d.]* matches, among those the modelled outputs hold *)
FieldTexts == {"", "1.0", "2.0", "3.0", "0.5"}

Summary(a, b, c, d) == <<RttText, a, "/", b, "/", c, "/", d, " ms">>

PingOutputs ==
    { <<"1 packets transmitted, 1 received">> \o Summary("1.0", "2.0", "3.0", "0.5"),
      <<"1 packets transmitted, 1 received">> \o Summary("", "", "", ""),
      <<"1 packets transmitted, 1 received">>,
      <<"round-trip min/avg/max/stddev = ", "1.0", "/", "2.0", "/", "3.0", "/", "0.5",
        " ms">>,
      <<RttText, "1.0", "/", "2.0", "/", "3.0", " ms">> }

GroupNames == {"min", "avg", "max", "mdev"}

(* two of the orders a dictionary may list the groups in *)
Orders == {<<"min", "avg", "max", "mdev">>, <<"mdev", "max", "avg", "min">>}

(* the pattern matches the pieces of `output` that start at i *)
MatchAt(output, i) ==
    /\ i + 8 <= Len(output)
    /\ output[i] = RttText
    /\ output[i + 1] \in FieldTexts /\ output[i + 2] = "/"
    /\ output[i + 3] \in FieldTexts /\ output[i + 4] = "/"
    /\ output[i + 5] \in FieldTexts /\ output[i + 6] = "/"
    /\ output[i + 7] \in FieldTexts /\ output[i + 8] = " ms"

(* re.search: the leftmost match, 0 for None *)
re_search(output) ==
    IF \E i \in 1..Len(output) : MatchAt(output, i)
    THEN CHOOSE i \in 1..Len(output) :
            MatchAt(output, i) /\ \A j \in 1..(i - 1) : ~MatchAt(output, j)
    ELSE 0

(* The utility takes its time when it fails (it waits for the deadline);   *)
(* the order of the dictionary matters only to an output the pattern       *)
(* matches.                                                                *)
PingEnvs ==
    [returncode : {1, 2}, output : {<<>>}, order : {<<"min", "avg", "max", "mdev">>},
     d1 : 0..MaxStep]
    \cup
    {e \in [returncode : {0}, output : PingOutputs, order : Orders, d1 : {0}] :
        re_search(e.output) = 0 => e.order = <<"min", "avg", "max", "mdev">>}

(* match.groupdict(): the matched texts, as they stand in the output *)
groupdict(output, i) ==
    [g \in GroupNames |->
        CASE g = "min" -> output[i + 1]
          [] g = "avg" -> output[i + 3]
          [] g = "max" -> output[i + 5]
          [] g = "mdev" -> output[i + 7]]

(* for m, v in match.groupdict().items(): metrics.Add(m, v, start) *)
RECURSIVE AddItems(_, _, _, _)
AddItems(metrics, order, gd, start) ==
    IF order = <<>> THEN metrics
    ELSE AddItems(Add(metrics, Head(order), Str(gd[Head(order)]), start),
                  Tail(order), gd, start)

GatherPingMetrics(server, start, env) ==
    LET pre == <<server[1], "ping">>
        t1 == start + env.d1
        match == re_search(env.output)
    IN  IF env.returncode = 1
        THEN Return(Prefixed(Add(EmptyMetrics, "timeout", Num(1), start), pre), t1)
        ELSE IF env.returncode # 0
        THEN Return(Prefixed(Add(EmptyMetrics, "errors", Num(1), start), pre), t1)
        ELSE IF match = 0
        \* match is None: None has no groupdict
        THEN Raise("AttributeError", t1)
        ELSE Return(Prefixed(AddItems(EmptyMetrics, env.order,
                                      groupdict(env.output, match), start), pre), t1)

----------------------------------------------------------------------------
(* Metrics.Serialize and SendMetrics.  The pickle stream is produced by    *)
(* the pickle library; the model keeps its framing (PROTO 2, an empty      *)
(* list, STOP) and gives every sample one byte per character of its name   *)
(* and two more for its pair.                                              *)

RECURSIVE pickle_size(_)
pickle_size(metrics) ==
    IF metrics = <<>> THEN 0
    ELSE (Len(Head(metrics)[1]) + 2) + pickle_size(Tail(metrics))

pickle_dumps_items(metrics) == [i \in 1..pickle_size(metrics) |-> 0]

pickle_dumps(metrics) == <<128, 2, 93>> \o pickle_dumps_items(metrics) \o <<46>>

(* struct.pack("<L", n): four bytes, least significant first *)
struct_pack_L_LittleEndian(n) ==
    <<n % 256, (n \div 256) % 256, (n \div 65536) % 256, (n \div 16777216) % 256>>

(* struct.pack("!L", n): four bytes, most significant first *)
struct_pack_L(n) ==
    <<(n \div 16777216) % 256, (n \div 65536) % 256, (n \div 256) % 256, n % 256>>

Serialize(self) ==
    LET payload == pickle_dumps(self)
        header == struct_pack_L(Len(payload))
    IN  header \o payload

(* env.connect is what socket.create_connection to the collector does,     *)
(* env.sendall what sock.sendall does, after env.d1 ticks in all.          *)
SendEnvs ==
    [connect : {"ok"}, sendall : {"ok"}, d1 : 0..MaxStep]
    \cup
    [connect : {"ok"}, sendall : {"error"}, d1 : {0}]
    \cup
    [connect : {"error"}, sendall : {"ok"}, d1 : {0}]

SendMetrics(metrics, start, env) ==
    LET serialized_metrics == Serialize(metrics)
        t1 == start + env.d1
    IN  IF env.connect = "error" THEN Raise("socket.error", t1)
        \* sendall raises before sock.close() at line 88
        ELSE IF env.sendall = "error" THEN Holding(Raise("socket.error", t1), 1)
        ELSE Return(serialized_metrics, t1)

----------------------------------------------------------------------------
(* The configuration.  args.server is a list of (NAME, HOST) pairs.        *)

Web == <<"web", "10.0.0.1">>

Config(server, sock_port, ssl_port, scheme, ping, period) ==
    [server |-> server, sock_port |-> sock_port, ssl_port |-> ssl_port,
     scheme |-> scheme, ping |-> ping, period |-> period, identifier |-> "host1"]

Configs ==
    { Config(<<Web>>, <<80>>, <<443>>, <<"https">>, FALSE, period) :
        period \in 1..MaxPeriod }
    \cup
    { Config(<<Web>>, <<80>>, <<443>>, <<"https">>, TRUE, 1), Config(<<Web>>, <<>>, <<443>>, <<"https">>, FALSE, 1),
      Config(<<Web>>, <<80>>, <<>>, <<"https">>, FALSE, 1),
      Config(<<Web>>, <<80>>, <<443>>, <<>>, FALSE, 1) }

(* the two lists walked side by side, as zip(xs, ys) would *)
Pairs_Zip(xs, ys) ==
    [k \in 1..(IF Len(xs) < Len(ys) THEN Len(xs) ELSE Len(ys)) |-> <<xs[k], ys[k]>>]

(* (f(x, y) for x in xs for y in ys), as the list of its argument pairs *)
Pairs(xs, ys) ==
    [k \in 1..(Len(xs) * Len(ys)) |->
        <<xs[((k - 1) \div Len(ys)) + 1], ys[((k - 1) % Len(ys)) + 1]>>]

(* the generator each reduce of GatherAllMetrics consumes *)
Generator(phase) ==
    CASE phase = "http" -> Pairs(args.scheme, args.server)
      [] phase = "socket" -> Pairs(args.sock_port, args.server)
      [] phase = "ssl" -> Pairs(args.ssl_port, args.server)
      [] phase = "ping" -> Pairs(<<"ping">>, args.server)

Phases == {"http", "socket", "ssl", "ping"}

(* what GatherAllMetrics does once a reduce has finished *)
PhaseAfter(phase) ==
    CASE phase = "http" -> "socket"
      [] phase = "socket" -> "ssl"
      [] phase = "ssl" -> IF args.ping THEN "ping" ELSE "send"
      [] phase = "ping" -> "send"

NoCall == [fn |-> "none"]
NoExc == [type |-> "none", from |-> "none"]
NoOp == [kind |-> "none"]
NoSched == [valid |-> FALSE, base |-> 0, next |-> 0, at |-> 0, slept |-> -1,
            overrun |-> FALSE, after_overrun |-> FALSE]

Boot == Epoch + 1

Init ==
    /\ args \in Configs
    /\ pc = "loop"
    /\ idx = 1
    /\ now = Boot
    /\ last_time = Boot
    /\ next_time = Boot
    /\ http_metrics = EmptyMetrics
    /\ socket_metrics = EmptyMetrics
    /\ ssl_metrics = EmptyMetrics
    /\ ping_metrics = EmptyMetrics
    /\ ret = NoCall
    /\ exc = NoExc
    /\ sched = NoSched
    /\ wire = <<>>
    /\ calls = <<>>
    /\ sends = 0
    /\ heap = <<>>
    /\ objs = <<>>
    /\ op = NoOp

----------------------------------------------------------------------------
(* MainLoop, line 210: the next tick is one period after the baseline, and *)
(* LoopOnce is entered.                                                    *)

NextTick(last, period) == last + period

LoopStart ==
    /\ pc = "loop"
    /\ next_time' = NextTick(last_time, args.period)
    /\ pc' = "http"
    /\ idx' = 1
    /\ wire' = <<>>
    /\ calls' = <<>>
    /\ sends' = 0
    /\ UNCHANGED <<args, now, last_time, http_metrics, socket_metrics, ssl_metrics,
                   ping_metrics, ret, exc, sched, direct>>

(* reduce(lambda a, b: a+b, ...): the running value after one more item *)
Reduced(acc, item) == IF idx = 1 THEN item ELSE __add__(acc, item)

(* the position after item idx of the generator of `phase` *)
Advance(phase) ==
    IF idx < Len(Generator(phase))
    THEN pc' = phase /\ idx' = idx + 1
    ELSE pc' = PhaseAfter(phase) /\ idx' = 1

(* an exception leaves the probe: nothing between it and the interpreter   *)
(* catches it                                                              *)
Uncaught(type, fn) ==
    /\ pc' = "raised"
    /\ exc' = [type |-> type, from |-> fn]
    /\ UNCHANGED idx

(* reduce() of an empty sequence with no initial value *)
ReduceEmpty ==
    /\ pc \in Phases
    /\ Generator(pc) = <<>>
    /\ Uncaught("TypeError", "reduce")
    /\ UNCHANGED <<args, now, last_time, next_time, http_metrics, socket_metrics,
                   ssl_metrics, ping_metrics, ret, sched, wire, calls, sends, direct>>

HttpProbeWith(envs) ==
    /\ pc = "http"
    /\ Generator("http") # <<>>
    /\ \E env \in envs :
        LET schema == Generator("http")[idx][1]
            server == Generator("http")[idx][2]
            r == GatherServerHttpMetrics(schema, server, now, env)
        IN  /\ r.end <= MaxTime
            /\ now' = r.end
            /\ ret' = [fn |-> "GatherServerHttpMetrics", server |-> server,
                       schema |-> schema, start |-> now, env |-> env, res |-> r]
            /\ calls' = Append(calls, [kind |-> "http", disc |-> schema, server |-> server,
                                       start |-> now, metrics |-> r.metrics])
            /\ IF r.raised # "none"
               THEN Uncaught(r.raised, "GatherServerHttpMetrics")
                    /\ UNCHANGED http_metrics
               ELSE /\ http_metrics' = Reduced(http_metrics, r.metrics)
                    /\ Advance("http")
                    /\ UNCHANGED exc
    /\ UNCHANGED <<args, last_time, next_time, socket_metrics, ssl_metrics,
                   ping_metrics, sched, wire, sends, direct>>

HttpProbe == HttpProbeWith(HttpEnvs)

SocketProbeWith(envs) ==
    /\ pc = "socket"
    /\ Generator("socket") # <<>>
    /\ \E env \in envs :
        LET port == Generator("socket")[idx][1]
            server == Generator("socket")[idx][2]
            r == GatherServerSocketMetrics(server, port, FALSE, now, env)
        IN  /\ r.end <= MaxTime
            /\ now' = r.end
            /\ ret' = [fn |-> "GatherServerSocketMetrics", server |-> server,
                       port |-> port, do_ssl |-> FALSE, start |-> now, env |-> env,
                       res |-> r]
            /\ calls' = Append(calls, [kind |-> "socket", disc |-> FormatInt(port), server |-> server,
                                       start |-> now, metrics |-> r.metrics])
            /\ IF r.raised # "none"
               THEN Uncaught(r.raised, "GatherServerSocketMetrics")
                    /\ UNCHANGED socket_metrics
               ELSE /\ socket_metrics' = Reduced(socket_metrics, r.metrics)
                    /\ Advance("socket")
                    /\ UNCHANGED exc
    /\ UNCHANGED <<args, last_time, next_time, http_metrics, ssl_metrics,
                   ping_metrics, sched, wire, sends, direct>>

SocketProbe == SocketProbeWith(TcpEnvs)

SslProbeWith(envs) ==
    /\ pc = "ssl"
    /\ Generator("ssl") # <<>>
    /\ \E env \in envs :
        LET port == Generator("ssl")[idx][1]
            server == Generator("ssl")[idx][2]
            r == GatherServerSocketMetrics(server, port, TRUE, now, env)
        IN  /\ r.end <= MaxTime
            /\ now' = r.end
            /\ ret' = [fn |-> "GatherServerSocketMetrics", server |-> server,
                       port |-> port, do_ssl |-> TRUE, start |-> now, env |-> env,
                       res |-> r]
            /\ calls' = Append(calls, [kind |-> "ssl", disc |-> FormatInt(port), server |-> server,
                                       start |-> now, metrics |-> r.metrics])
            /\ IF r.raised # "none"
               THEN Uncaught(r.raised, "GatherServerSocketMetrics")
                    /\ UNCHANGED ssl_metrics
               ELSE /\ ssl_metrics' = Reduced(ssl_metrics, r.metrics)
                    /\ Advance("ssl")
                    /\ UNCHANGED exc
    /\ UNCHANGED <<args, last_time, next_time, http_metrics, socket_metrics,
                   ping_metrics, sched, wire, sends, direct>>

SslProbe == SslProbeWith(SocketEnvs)

PingProbeWith(envs) ==
    /\ pc = "ping"
    /\ Generator("ping") # <<>>
    /\ \E env \in envs :
        LET server == Generator("ping")[idx][2]
            r == GatherPingMetrics(server, now, env)
        IN  /\ r.end <= MaxTime
            /\ now' = r.end
            /\ ret' = [fn |-> "GatherPingMetrics", server |-> server, start |-> now,
                       env |-> env, res |-> r]
            /\ calls' = Append(calls, [kind |-> "ping", disc |-> "ping", server |-> server,
                                       start |-> now, metrics |-> r.metrics])
            /\ IF r.raised # "none"
               THEN Uncaught(r.raised, "GatherPingMetrics")
                    /\ UNCHANGED ping_metrics
               ELSE /\ ping_metrics' = Reduced(ping_metrics, r.metrics)
                    /\ Advance("ping")
                    /\ UNCHANGED exc
    /\ UNCHANGED <<args, last_time, next_time, http_metrics, socket_metrics,
                   ssl_metrics, sched, wire, sends, direct>>

PingProbe == PingProbeWith(PingEnvs)

(* the result without what the TLS probes gathered *)
GatherAllMetrics_WithoutSsl ==
    IF args.ping
    THEN __add__(__add__(http_metrics, socket_metrics), ping_metrics)
    ELSE __add__(http_metrics, socket_metrics)

(* what GatherAllMetrics returns, lines 193-199 *)
GatherAllMetrics ==
    IF args.ping
    THEN __add__(__add__(__add__(http_metrics, socket_metrics), ssl_metrics),
                 ping_metrics)
    ELSE __add__(__add__(http_metrics, socket_metrics), ssl_metrics)

(* LoopOnce, line 203: what LoopOnce hands to SendMetrics *)
LoopOnceMetrics == Prefixed(GatherAllMetrics, <<"loga", args.identifier>>)

(* LoopOnce, lines 203-204: prefix what was gathered and send it.  MainLoop *)
(* calls LoopOnce outside any try: what SendMetrics raises ends the        *)
(* process.                                                                *)
LoopOnceSend ==
    /\ pc = "send"
    /\ \E env \in SendEnvs :
        LET metrics == LoopOnceMetrics
            r == SendMetrics(metrics, now, env)
        IN  /\ r.end <= MaxTime
            /\ now' = r.end
            /\ ret' = [fn |-> "SendMetrics", start |-> now, env |-> env, res |-> r]
            /\ IF r.raised # "none"
               THEN /\ pc' = "raised"
                    /\ exc' = [type |-> r.raised, from |-> "SendMetrics"]
                    /\ UNCHANGED wire
               ELSE /\ pc' = "after"
                    /\ wire' = r.metrics
                    /\ UNCHANGED exc
    \* GatherAllMetrics has returned: its locals are gone
    /\ http_metrics' = EmptyMetrics
    /\ socket_metrics' = EmptyMetrics
    /\ ssl_metrics' = EmptyMetrics
    /\ ping_metrics' = EmptyMetrics
    /\ calls' = <<>>
    /\ sends' = sends + 1
    /\ UNCHANGED <<args, idx, last_time, next_time, sched, direct>>

(* MainLoop, lines 212-218 *)
(* `<=` for `<`: a cycle that ends exactly on the tick sleeps for 0 s and   *)
(* logs nothing                                                            *)
MustSleep_OrEqual(captured, next) == captured <= next

(* the sleep taken whatever the clock says: a late cycle sleeps for a      *)
(* duration that is zero or negative                                       *)
MustSleep_Always(captured, next) == TRUE

MustSleep(captured, next) == captured < next

SleepSeconds(captured, next) == next - captured

(* the baseline taken from the completion time: the schedule drifts *)
NextBaseline_Completion(captured, next) == captured

NextBaseline(captured, next) == next

LoopEnd ==
    /\ pc = "after"
    /\ \E lag \in 0..MaxLag :
        LET captured == now
        IN  IF MustSleep(captured, next_time)
            THEN /\ now' = captured + SleepSeconds(captured, next_time) + lag
                 /\ now' <= MaxTime
                 /\ sched' = [valid |-> TRUE, base |-> last_time, next |-> next_time,
                              at |-> captured,
                              slept |-> SleepSeconds(captured, next_time),
                              overrun |-> FALSE, after_overrun |-> sched.overrun]
            ELSE /\ lag = 0
                 /\ now' = captured
                 /\ sched' = [valid |-> TRUE, base |-> last_time, next |-> next_time,
                              at |-> captured, slept |-> -1, overrun |-> TRUE,
                              after_overrun |-> sched.overrun]
    /\ last_time' = NextBaseline(now, next_time)
    /\ pc' = "loop"
    \* LoopOnce has returned
    /\ ret' = NoCall
    /\ UNCHANGED <<args, idx, next_time, http_metrics, socket_metrics, ssl_metrics,
                   ping_metrics, exc, wire, calls, sends, direct>>

Next ==
    \/ LoopStart
    \/ ReduceEmpty
    \/ HttpProbe
    \/ SocketProbe
    \/ SslProbe
    \/ PingProbe
    \/ LoopOnceSend
    \/ LoopEnd

Spec == Init /\ [][Next]_vars

----------------------------------------------------------------------------
(* The fan-out of GatherAllMetrics over several servers, schemes and       *)
(* ports: the same MainLoop, started with two servers and two schemes,     *)
(* and with probes whose operations take no time and end in a result the   *)
(* probe returns.                                                          *)

Db == <<"db", "10.0.0.2">>

FanOutConfigs ==
    { Config(<<Web, Db>>, <<80>>, <<443>>, <<"http", "https">>, ping, 1) :
        ping \in BOOLEAN }

FanOutHttpEnvs ==
    {e \in HttpEnvs : /\ e.d1 = 0 /\ e.d2 = 0 /\ e.read = "ok"
                      /\ \/ e.open = "ok" /\ e.body = 1
                         \/ e.open = "URLError" /\ e.reason = "timeout"}

FanOutSocketEnvs ==
    {e \in SocketEnvs : /\ e.d1 = 0 /\ e.d2 = 0 /\ e.cert = 1 /\ e.handshake = "ok"
                        /\ e.connect \in {"ok", "error"}}

FanOutPingEnvs == {e \in PingEnvs : e.d1 = 0 /\ e.returncode # 0}

InitFanOut ==
    /\ args \in FanOutConfigs
    /\ pc = "loop"
    /\ idx = 1
    /\ now = Boot
    /\ last_time = Boot
    /\ next_time = Boot
    /\ http_metrics = EmptyMetrics
    /\ socket_metrics = EmptyMetrics
    /\ ssl_metrics = EmptyMetrics
    /\ ping_metrics = EmptyMetrics
    /\ ret = NoCall
    /\ exc = NoExc
    /\ sched = NoSched
    /\ wire = <<>>
    /\ calls = <<>>
    /\ sends = 0
    /\ heap = <<>>
    /\ objs = <<>>
    /\ op = NoOp

FanOutHttp == HttpProbeWith(FanOutHttpEnvs)
FanOutSocket == SocketProbeWith(FanOutSocketEnvs)
FanOutSsl == SslProbeWith(FanOutSocketEnvs)
FanOutPing == PingProbeWith(FanOutPingEnvs)

NextFanOut ==
    \/ LoopStart
    \/ FanOutHttp
    \/ FanOutSocket
    \/ FanOutSsl
    \/ FanOutPing
    \/ LoopOnceSend
    \/ LoopEnd

SpecFanOut == InitFanOut /\ [][NextFanOut]_vars

----------------------------------------------------------------------------
(* Metrics objects used directly, without MainLoop: objects are built,     *)
(* then added to and merged in any order, or serialized.  A Metrics object *)
(* refers                                                                  *)
(* to a Python list; two objects that refer to the same list would see     *)
(* each other's Add.                                                       *)

(* the variables of MainLoop *)
main == <<args, pc, idx, now, last_time, next_time, http_metrics, socket_metrics,
          ssl_metrics, ping_metrics, ret, exc, sched, wire, calls, sends>>

(* the params of the samples the objects are built with *)
DirectParams == {"a", "b"}

(* the lists of at most n samples Metrics.Add can build *)
RECURSIVE Lists(_)
Lists(n) ==
    IF n = 0 THEN {EmptyMetrics}
    ELSE Lists(n - 1) \cup
         {Add(l, p, Num(1), Boot) : l \in {x \in Lists(n - 1) : Len(x) = n - 1},
                                   p \in DirectParams}

(* the lengths handed to struct.pack: around each byte boundary, up to the *)
(* largest integer TLC represents (2^31 - 1)                               *)
PackLengths ==
    {0, 1, 255, 256, 65535, 65536, 16777215, 16777216, 2147483647}

(* Metrics.__init__, line 57: `metrics or list()`.  id is the list passed  *)
(* (0 for None).  The object refers to that list if it is not empty, to a  *)
(* new empty list otherwise.                                               *)
__init__(h, id) ==
    IF id # 0 /\ h[id] # <<>>
    THEN [heap |-> h, list |-> id]
    ELSE [heap |-> Append(h, <<>>), list |-> Len(h) + 1]

(* the list of object k *)
ListOf(k) == heap[objs[k]]

InitDirect ==
    /\ args = Config(<<Web>>, <<80>>, <<443>>, <<"https">>, FALSE, 1)
    /\ pc = "direct"
    /\ idx = 1
    /\ now = Boot
    /\ last_time = Boot
    /\ next_time = Boot
    /\ http_metrics = EmptyMetrics
    /\ socket_metrics = EmptyMetrics
    /\ ssl_metrics = EmptyMetrics
    /\ ping_metrics = EmptyMetrics
    /\ ret = NoCall
    /\ exc = NoExc
    /\ sched = NoSched
    /\ wire = <<>>
    /\ calls = <<>>
    /\ sends = 0
    /\ \E a \in Lists(MaxLen), b \in Lists(MaxLen) : heap = <<a, b>>
    /\ objs = <<1, 2>>
    /\ op = NoOp

(* m.Add("c", 1, time): the list of m is appended to in place *)
DoAdd ==
    /\ \E k \in 1..Len(objs) :
        /\ Len(ListOf(k)) < MaxLen
        /\ heap' = [heap EXCEPT ![objs[k]] = Add(@, "c", Num(1), Boot)]
        /\ op' = [kind |-> "add", obj |-> k, before |-> heap]
    /\ UNCHANGED <<objs, main>>

(* a + b: lines 64-65.  self.metrics + other.metrics is a new list, which  *)
(* Metrics.__init__ is given.                                              *)
DoMerge ==
    /\ Len(objs) < MaxObjs
    /\ \E a \in 1..Len(objs), b \in 1..Len(objs) :
        LET sum == Append(heap, __add__(ListOf(a), ListOf(b)))
            new == __init__(sum, Len(sum))
        IN  /\ heap' = new.heap
            /\ objs' = Append(objs, new.list)
            /\ op' = [kind |-> "merge", a |-> a, b |-> b, res |-> Len(objs) + 1,
                      before |-> heap]
    /\ UNCHANGED main

(* m.Serialize() *)
DoSerialize ==
    /\ \E k \in 1..Len(objs) :
        op' = [kind |-> "serialize", obj |-> k, out |-> Serialize(ListOf(k))]
    /\ UNCHANGED <<heap, objs, main>>

(* struct.pack("!L", n) for the length n of a payload *)
DoPack ==
    /\ \E n \in PackLengths :
        op' = [kind |-> "pack", n |-> n, out |-> struct_pack_L(n)]
    /\ UNCHANGED <<heap, objs, main>>

(* objects are merged and added to *)
NextDirect ==
    \/ DoAdd
    \/ DoMerge

SpecDirect == InitDirect /\ [][NextDirect]_vars

(* objects and lengths are serialized *)
NextSerialize ==
    \/ DoSerialize
    \/ DoPack

SpecSerialize == InitDirect /\ [][NextSerialize]_vars

----------------------------------------------------------------------------
(* What the claims speak of. *)

ProbeFunctions ==
    {"GatherServerHttpMetrics", "GatherServerSocketMetrics", "GatherPingMetrics"}

(* a configuration every list of which holds something, as the command     *)
(* line's defaults do                                                      *)
NoEmptyList ==
    /\ args.server # <<>> /\ args.scheme # <<>>
    /\ args.sock_port # <<>> /\ args.ssl_port # <<>>

(* the number of samples of `metrics` called `name` *)
Count(metrics, name) == Cardinality({i \in 1..Len(metrics) : metrics[i][1] = name})

(* the value of the first sample of `metrics` called `name` *)
ValueOf(metrics, name) ==
    metrics[CHOOSE i \in 1..Len(metrics) :
                metrics[i][1] = name /\ \A j \in 1..(i - 1) : metrics[j][1] # name][2][2]

(* the (seconds, value) pair of each sample *)
Stamps(metrics) == [i \in 1..Len(metrics) |-> metrics[i][2]]

(* the samples the calls `cs` returned, call after call *)
RECURSIVE Gathered(_)
Gathered(cs) ==
    IF cs = <<>> THEN EmptyMetrics ELSE Head(cs).metrics \o Gathered(Tail(cs))

(* the params the probe `kind` passes to Metrics.Add *)
MetricNames(kind) ==
    CASE kind = "http" ->
            {"errors", "timeout", "time_to_first_byte", "time_to_last_byte", "code",
             "size"}
      [] kind \in {"socket", "ssl"} ->
            {"timeout", "errors", "connect_time", "ssl_handshake_time",
             "ssl_cert_length"}
      [] kind = "ping" -> {"timeout", "errors"} \cup GroupNames

(* <serverName>.<discriminator>. for the call c *)
CallPrefix(c) == (c.server[1] \o ".") \o (c.disc \o ".")

(* the number of probe calls one GatherAllMetrics makes *)
ExpectedCalls ==
    (Len(args.scheme) + Len(args.sock_port) + Len(args.ssl_port)
        + (IF args.ping THEN 1 ELSE 0)) * Len(args.server)

(* the elements of a list *)
Range(xs) == {xs[i] : i \in 1..Len(xs)}

(* the number of calls of the probe `kind` for the discriminator d (a      *)
(* scheme, a formatted port, "ping") and the server                        *)
CallCount(kind, d, server) ==
    Cardinality({k \in 1..Len(calls) :
        calls[k].kind = kind /\ calls[k].disc = d /\ calls[k].server = server})

(* the calls of the probe `kind`, in call order *)
CallsOf(kind) == SelectSeq(calls, LAMBDA c : c.kind = kind)

(* struct.unpack("!L", header): the number four big-endian bytes spell;    *)
(* -1 for a number past the largest integer TLC represents                 *)
Decode(header) ==
    IF header[1] > 127 THEN -1
    ELSE ((header[1] * 256 + header[2]) * 256 + header[3]) * 256 + header[4]

SocketCall == ret.fn = "GatherServerSocketMetrics"
HttpCall == ret.fn = "GatherServerHttpMetrics"
PingCall == ret.fn = "GatherPingMetrics"

(* <server>.<port>.<metric>, <server>.<scheme>.<metric>, <server>.ping.<metric> *)
SocketName(metric) == ((ret.server[1] \o ".") \o (ToString(ret.port) \o ".")) \o metric
HttpName(metric) == ((ret.server[1] \o ".") \o (ret.schema \o ".")) \o metric
PingName(metric) == (ret.server[1] \o ".ping.") \o metric

(* C1: a failed send to the collector never terminates the process: the    *)
(* Scheduler catches the failure and goes on to the next cycle.  MainLoop  *)
(* has no try around LoopOnce, so the formula is violated.                 *)
C1_FailedSendNeverTerminates ==
    ~(pc = "raised" /\ exc.from = "SendMetrics")

(* C2: whatever the outcome of a probe, the probe returns a SampleSet      *)
(* normally: no exception leaves a probe and ends the cycle.  Violated: a  *)
(* timeout while the body is read, a failed TLS handshake and ping output  *)
(* without a summary line each raise out of the probe.                     *)
C2_EveryProbeReturns ==
    NoEmptyList => ~(pc = "raised" /\ exc.from \in ProbeFunctions)

(* C3: drift correction.  After every cycle the new baseline last_time is  *)
(* the baseline of that cycle plus the period, which is the tick that was  *)
(* scheduled for it, whether the cycle ended before or after that tick;    *)
(* and a cycle that ended after the tick logged an overrun.                *)
C3_DriftCorrection ==
    sched.valid =>
        /\ last_time = sched.base + args.period
        /\ last_time = sched.next
        /\ (sched.at > sched.next => sched.overrun)

(* a cycle overran its tick, and the next cycle has started on the         *)
(* schedule of the previous tick                                           *)
C3_Witness ==
    /\ sched.valid /\ sched.overrun /\ sched.at > sched.next
    /\ pc = "http"
    /\ last_time = sched.base + args.period
    /\ next_time = sched.next + args.period

(* C4: after each cycle, if now < nextTime the Scheduler sleeps for        *)
(* exactly nextTime - now and logs no overrun; otherwise it logs an        *)
(* overrun and goes on at once, without sleeping.                          *)
C4_SleepOrWarn ==
    sched.valid =>
        IF sched.at < sched.next
        THEN /\ sched.slept = sched.next - sched.at
             /\ ~sched.overrun
             /\ (pc = "loop" => now >= sched.next)
        ELSE /\ sched.overrun
             /\ sched.slept = -1
             /\ (pc = "loop" => now = sched.at)

(* a cycle ended before its tick and the Scheduler slept up to the tick *)
C4_Witness ==
    /\ sched.valid /\ pc = "loop"
    /\ sched.at < sched.next
    /\ sched.slept = sched.next - sched.at
    /\ ~sched.overrun

(* C5: in the TLS-handshake probe, when the connection succeeds and the    *)
(* handshake fails, the probe still returns normally, with connect_time    *)
(* and ssl_handshake_time and neither ssl_cert_length nor errors.          *)
(* Violated: the probe raises UnboundLocalError.                           *)
C5_HandshakeFailureSwallowed ==
    (SocketCall /\ ret.do_ssl /\ ret.env.connect = "ok"
                /\ ret.env.handshake = "SSLError") =>
        /\ ret.res.raised = "none"
        /\ Names(ret.res.metrics) =
              <<SocketName("connect_time"), SocketName("ssl_handshake_time")>>

(* C6: in the ping probe, exit code 0 with no summary line in the output   *)
(* gives an empty SampleSet, returned normally.  Violated: the probe       *)
(* raises AttributeError.                                                  *)
C6_NoSummaryNoSample ==
    (PingCall /\ ret.env.returncode = 0 /\ re_search(ret.env.output) = 0) =>
        /\ ret.res.raised = "none"
        /\ ret.res.metrics = EmptyMetrics

(* C7: when the TCP connection attempt fails, the TCP-connect probe and    *)
(* the TLS-handshake probe return exactly one sample:                      *)
(* <server>.<port>.timeout = 1 on a timeout, <server>.<port>.errors = 1 on *)
(* any other failure; no connect_time, and no ssl_* sample.                *)
C7_ConnectFailureOneSample ==
    (SocketCall /\ ret.env.connect # "ok") =>
        /\ ret.res.raised = "none"
        /\ Len(ret.res.metrics) = 1
        /\ ret.res.metrics[1][1] =
              SocketName(IF ret.env.connect = "timeout" THEN "timeout" ELSE "errors")
        /\ ret.res.metrics[1][2][2] = Num(1)

(* the TLS-handshake probe has returned from a connection that timed out *)
C7_Witness ==
    /\ SocketCall /\ ret.do_ssl /\ ret.env.connect = "timeout"
    /\ ret.res.raised = "none"
    /\ Names(ret.res.metrics) = <<"web.443.timeout">>

(* C8: when the HTTP request fails at the network level, the probe returns *)
(* timeout=1 and errors=1, each once, on a timeout, and the single sample  *)
(* errors=1 on any other failure.  Violated: on another failure the probe  *)
(* records errors=1 twice.                                                 *)
C8_NetworkFailureSamples ==
    (NoEmptyList /\ HttpCall /\ ret.env.open = "URLError") =>
        /\ ret.res.raised = "none"
        /\ Count(ret.res.metrics, HttpName("errors")) = 1
        /\ \A i \in 1..Len(ret.res.metrics) : ret.res.metrics[i][2][2] = Num(1)
        /\ IF ret.env.reason = "timeout"
           THEN /\ Len(ret.res.metrics) = 2
                /\ Count(ret.res.metrics, HttpName("timeout")) = 1
           ELSE Len(ret.res.metrics) = 1

(* C9: whenever the HTTP probe has a response (a success or an HTTP error  *)
(* status), what it returns holds time_to_first_byte, time_to_last_byte,   *)
(* code (the status) and size (the bytes of the body), each once, with     *)
(* time_to_first_byte <= time_to_last_byte, and holds errors=1 if and only *)
(* if the response was an HTTP error.                                      *)
C9_ResponseSamples ==
    (HttpCall /\ ret.env.open \in {"ok", "HTTPError"} /\ ret.res.raised = "none") =>
        LET m == ret.res.metrics
        IN  /\ \A n \in {"time_to_first_byte", "time_to_last_byte", "code", "size"} :
                  Count(m, HttpName(n)) = 1
            /\ ValueOf(m, HttpName("code")) = Num(ret.env.code)
            /\ ValueOf(m, HttpName("size")) = Num(ret.env.body)
            /\ ValueOf(m, HttpName("time_to_first_byte")).num
                  <= ValueOf(m, HttpName("time_to_last_byte")).num
            /\ Count(m, HttpName("errors")) =
                  (IF ret.env.open = "HTTPError" THEN 1 ELSE 0)
            /\ (ret.env.open = "HTTPError" =>
                  ValueOf(m, HttpName("errors")) = Num(1))
            /\ Len(m) = 4 + Count(m, HttpName("errors"))

(* an HTTP error response with a body of two bytes, the last byte later    *)
(* than the first                                                          *)
C9_Witness ==
    /\ HttpCall /\ ret.env.open = "HTTPError" /\ ret.env.body = 2
    /\ ret.res.raised = "none"
    /\ ValueOf(ret.res.metrics, "web.https.size") = Num(2)
    /\ ValueOf(ret.res.metrics, "web.https.time_to_first_byte").num
          < ValueOf(ret.res.metrics, "web.https.time_to_last_byte").num

(* C10: the ping probe gives exactly <server>.ping.timeout = 1 on exit     *)
(* code 1, exactly <server>.ping.errors = 1 on any other non-zero exit,    *)
(* and on exit code 0 with a summary line exactly the four samples min,    *)
(* avg, max, mdev, whose values are floating-point numbers.  Violated: the *)
(* values are the matched texts, strings that were never converted.        *)
C10_PingClassification ==
    PingCall =>
        IF ret.env.returncode # 0
        THEN /\ ret.res.raised = "none"
             /\ ret.res.metrics =
                   <<  <<PingName(IF ret.env.returncode = 1 THEN "timeout" ELSE "errors"),
                         <<ret.start - Epoch, Num(1)>> >>  >>
        ELSE re_search(ret.env.output) # 0 =>
             /\ ret.res.raised = "none"
             /\ Len(ret.res.metrics) = 4
             /\ \A g \in GroupNames : Count(ret.res.metrics, PingName(g)) = 1
             /\ \A i \in 1..4 : ret.res.metrics[i][2][2].kind = "num"

(* C12: SendMetrics closes the connection it opened on every exit path,    *)
(* also when writing the payload fails.  Violated: sendall raises at line  *)
(* 87 and sock.close() at line 88 is never reached.                        *)
C12_SendClosesConnection ==
    (ret.fn = "SendMetrics" /\ ret.env.connect = "ok") => ret.res.open = 0

(* C13: no handle a probe opened is still open when the probe invocation   *)
(* ends, on any exit path.  Violated: an exception that leaves a probe     *)
(* skips sock.close() at line 116 (failed handshake), and a response whose *)
(* read times out is never closed.                                         *)
C13_ProbeReleasesHandle ==
    (NoEmptyList /\ ret.fn \in ProbeFunctions) => ret.res.open = 0

C20_SleepWithinPeriod ==
    /\ now >= last_time
    /\ (pc \in Phases \cup {"send", "after"} => next_time = last_time + args.period)
    /\ (sched.valid =>
          /\ sched.at >= sched.base
          /\ IF sched.overrun
             THEN sched.slept = -1 /\ sched.at >= sched.next
             ELSE 0 < sched.slept /\ sched.slept <= args.period)

(* after a cycle that overran its tick, the next cycle has ended before    *)
(* its own tick and the Scheduler has slept                                *)
C20_Witness ==
    /\ sched.valid /\ sched.after_overrun /\ ~sched.overrun /\ pc = "loop"
    /\ sched.base > Boot
    /\ sched.slept = args.period

(* C14: all samples of one probe invocation carry one timestamp, the start *)
(* instant of the invocation (in seconds since the epoch), on every path   *)
(* that returns samples; and neither the merges of GatherAllMetrics nor    *)
(* Prefixed change the timestamp or the value of a sample.                 *)
C14_OneTimestampPerInvocation ==
    /\ \A k \in 1..Len(calls) : \A i \in 1..Len(calls[k].metrics) :
          calls[k].metrics[i][2][1] = calls[k].start - Epoch
    /\ (pc = "send" =>
          /\ Stamps(GatherAllMetrics) = Stamps(Gathered(calls))
          /\ Stamps(LoopOnceMetrics) = Stamps(GatherAllMetrics))

(* a payload about to be sent holds the four samples of an HTTP response   *)
(* and the samples of a probe that started later                           *)
C14_Witness ==
    /\ pc = "send"
    /\ \E k, j \in 1..Len(calls) :
          /\ Len(calls[k].metrics) >= 4
          /\ calls[j].metrics # EmptyMetrics
          /\ calls[j].start > calls[k].start
    /\ Len(LoopOnceMetrics) >= 6

(* C17: every name in the payload of a cycle reads                         *)
(* loga.<identifier>.<serverName>.<discriminator>.<metric>, the            *)
(* discriminator being the port, the scheme or "ping"; Prefixed(p1, p2)    *)
(* turns x into p1.p2.x, a later Prefixed puts its parts to the left of    *)
(* the earlier ones, and Prefixed keeps the number and order of samples.   *)
C17_PayloadNames ==
    pc = "send" =>
        LET S == GatherAllMetrics
            P == LoopOnceMetrics
            pre == "loga." \o (args.identifier \o ".")
        IN  /\ \A k \in 1..Len(calls) :
                  Range(Names(calls[k].metrics)) \subseteq
                      {CallPrefix(calls[k]) \o m : m \in MetricNames(calls[k].kind)}
            /\ Names(S) = Names(Gathered(calls))
            /\ Len(P) = Len(S)
            /\ Stamps(P) = Stamps(S)
            /\ Names(P) = [i \in 1..Len(S) |-> pre \o S[i][1]]
            /\ Prefixed(Prefixed(S, <<args.identifier>>), <<"loga">>) = P

(* a payload about to be sent names a sample of the HTTP probe, one of the *)
(* TLS probe and one of the ping probe                                     *)
C17_Witness ==
    /\ pc = "send"
    /\ Count(LoopOnceMetrics, "loga.host1.web.https.code") = 1
    /\ Count(LoopOnceMetrics, "loga.host1.web.443.ssl_cert_length") = 1
    /\ Count(LoopOnceMetrics, "loga.host1.web.ping.mdev") = 1

(* C18: every cycle sends exactly once, after all its probes have          *)
(* finished, and what it sends is exactly what the probes of that cycle    *)
(* returned; between two cycles nothing is left of the samples, only the   *)
(* baseline of the Scheduler.                                              *)
C18_OneSendPerCycle ==
    /\ (pc \in Phases => sends = 0)
    /\ (pc \in Phases /\ NoEmptyList => Len(calls) < ExpectedCalls)
    /\ (pc = "send" =>
          /\ sends = 0
          /\ Len(calls) = ExpectedCalls
          /\ GatherAllMetrics = Gathered(calls)
          /\ Stamps(LoopOnceMetrics) = Stamps(Gathered(calls)))
    /\ (pc = "after" =>
          /\ sends = 1
          /\ ret.fn = "SendMetrics" /\ ret.res.raised = "none"
          /\ wire = ret.res.metrics)
    /\ (pc \in {"loop", "after"} =>
          /\ calls = <<>>
          /\ http_metrics = EmptyMetrics /\ socket_metrics = EmptyMetrics
          /\ ssl_metrics = EmptyMetrics /\ ping_metrics = EmptyMetrics)
    /\ (pc = "loop" => ret = NoCall /\ sends <= 1)

(* the second cycle has sent its payload, once *)
C18_Witness ==
    /\ pc = "after" /\ sched.valid
    /\ sends = 1
    /\ Len(wire) > 8

(* C11: in one cycle GatherAllMetrics calls the HTTP probe once for every  *)
(* (scheme, server) pair, the TCP probe once for every (socket port,       *)
(* server) pair, the TLS probe once for every (TLS port, server) pair and, *)
(* only with ping enabled, the ping probe once for every server; no pair   *)
(* is probed twice, also when the probe reported a failure; and the merge  *)
(* holds the HTTP samples, then the TCP, the TLS and the ping samples.     *)
C11_OneProbePerPair ==
    /\ \A c \in Range(calls) : CallCount(c.kind, c.disc, c.server) = 1
    /\ \A c \in Range(calls) : c.kind = "ping" => args.ping
    /\ (pc = "send" =>
          /\ \A v \in Range(args.server) :
                /\ \A x \in Range(args.scheme) : CallCount("http", x, v) = 1
                /\ \A x \in Range(args.sock_port) :
                      CallCount("socket", FormatInt(x), v) = 1
                /\ \A x \in Range(args.ssl_port) :
                      CallCount("ssl", FormatInt(x), v) = 1
                /\ CallCount("ping", "ping", v) = (IF args.ping THEN 1 ELSE 0)
          /\ Len(calls) = ExpectedCalls
          /\ GatherAllMetrics =
                ((Gathered(CallsOf("http")) \o Gathered(CallsOf("socket")))
                    \o Gathered(CallsOf("ssl"))) \o Gathered(CallsOf("ping")))

(* two servers, two schemes and ping: ten probes have run, the HTTP probe  *)
(* of one pair reported a failure and was not run again, and the merge     *)
(* starts with an HTTP sample and ends with a ping sample                  *)
C11_Witness ==
    /\ pc = "send" /\ args.ping
    /\ Len(args.server) = 2 /\ Len(args.scheme) = 2
    /\ Len(calls) = 10
    /\ Count(GatherAllMetrics, "db.https.errors") = 1
    /\ Count(GatherAllMetrics, "web.http.code") = 1
    /\ GatherAllMetrics[Len(GatherAllMetrics)][1] \in {"db.ping.timeout", "db.ping.errors"}

(* C15: A.Merge(B) is a new SampleSet of length len(A) + len(B) holding    *)
(* A's samples and then B's, in their order; Merge is associative; it      *)
(* leaves A and B as they were, and an Add on any object, the result of a  *)
(* merge or one of its operands, changes no other object.                  *)
C15_MergeIsConcatenation ==
    /\ (op.kind = "merge" =>
          LET A == op.before[objs[op.a]]
              B == op.before[objs[op.b]]
              R == ListOf(op.res)
          IN  /\ Len(R) = Len(A) + Len(B)
              /\ \A i \in 1..Len(A) : R[i] = A[i]
              /\ \A i \in 1..Len(B) : R[Len(A) + i] = B[i]
              /\ \A k \in 1..(Len(objs) - 1) :
                    /\ ListOf(k) = op.before[objs[k]]
                    /\ objs[k] # objs[op.res])
    /\ (op.kind = "add" =>
          /\ ListOf(op.obj) = Add(op.before[objs[op.obj]], "c", Num(1), Boot)
          /\ \A k \in 1..Len(objs) : k # op.obj => ListOf(k) = op.before[objs[k]])
    /\ \A a \in 1..Len(objs), b \in 1..Len(objs), c \in 1..Len(objs) :
          __add__(__add__(ListOf(a), ListOf(b)), ListOf(c))
              = __add__(ListOf(a), __add__(ListOf(b), ListOf(c)))

(* a list was merged with an empty one and the result was then added to:   *)
(* the result holds the samples of the operand and the new one, and the    *)
(* operands still are what they were                                       *)
C15_Witness ==
    /\ op.kind = "add" /\ op.obj = 3
    /\ Names(ListOf(1)) = <<"a">> /\ ListOf(2) = EmptyMetrics
    /\ Names(ListOf(3)) = <<"a", "c">>

(* C16: Serialize returns header || payload, the header being exactly 4    *)
(* bytes that spell the length of the payload as a big-endian unsigned     *)
(* number: the output is 4 + len(payload) bytes long, and decoding the     *)
(* header gives the number of payload bytes that follow; and so for every  *)
(* length that fits in 32 bits.                                            *)
C16_LengthHeader ==
    /\ (op.kind = "serialize" =>
          LET payload == pickle_dumps(ListOf(op.obj))
              header == SubSeq(op.out, 1, 4)
          IN  /\ Len(op.out) = 4 + Len(payload)
              /\ SubSeq(op.out, 5, Len(op.out)) = payload
              /\ \A i \in 1..4 : header[i] \in 0..255
              /\ Decode(header) = Len(payload)
              /\ Decode(header) = Len(op.out) - 4)
    /\ (op.kind = "pack" =>
          /\ Len(op.out) = 4
          /\ \A i \in 1..4 : op.out[i] \in 0..255
          /\ Decode(op.out) = op.n)

(* a set of two samples was serialized: ten bytes of payload after the     *)
(* header 0 0 0 10                                                         *)
C16_Witness ==
    /\ op.kind = "serialize"
    /\ Len(ListOf(op.obj)) = 2
    /\ SubSeq(op.out, 1, 4) = <<0, 0, 0, 10>>
    /\ Len(op.out) = 14

====
